---- MODULE Spec2Model ----
(***************************************************************************)
(* Model of InsertRestoreOpPass                                            *)
(* (tensorflow/compiler/mlir/quantization/tensorflow/passes/               *)
(*  insert_restore_op.cc).                                                 *)
(*                                                                         *)
(* A module is a sequence of functions.  A function has an initializer     *)
(* type attribute, a list of arguments and a single block of operations.   *)
(* An operation has an identity (id, standing for the Operation pointer),  *)
(* a kind, operands and attributes.  A value is either the idx-th result   *)
(* of operation def, or (def = 0) the idx-th block argument, for which     *)
(* Value::getDefiningOp() returns nullptr.                                 *)
(***************************************************************************)
EXTENDS Integers, Sequences, FiniteSets, TLC

VARIABLES module, pc, session_init_func, it, var_handle_ops, const_op,
          nextId, pre, outcomes

vars == <<module, pc, session_init_func, it, var_handle_ops, const_op,
          nextId, pre, outcomes>>

\* Largest number of tf.AssignVariableOp in the initializer given to the pass.
MaxAssign == 2
\* Number of times the pass manager runs the pass on the same module.
MaxRuns == 2

-----------------------------------------------------------------------------
(* IR vocabulary *)

NullOp == 0

kVarHandleOp == "tf.VarHandleOp"
kConstOp == "tf.Const"
kAssignVariableOp == "tf.AssignVariableOp"
kRestoreV2Op == "tf.RestoreV2"
kIdentityOp == "tf.Identity"
kNegOp == "tf.Neg"
kReturnOp == "func.return"

kTfSavedModelInitializerRestoreType == "restore_op"
kTfSavedModelInitializerInitType == "init_op"

ScalarStringType == "tensor<!tf_type.string>"

Result(id, i) == [def |-> id, idx |-> i]
BlockArg(i) == [def |-> NullOp, idx |-> i]

Op(id, kind, operands, name, subtype, val, strs, types) ==
  [id |-> id, kind |-> kind, operands |-> operands, name |-> name,
   subtype |-> subtype, val |-> val, strs |-> strs, types |-> types]

VarHandleOp(id, shared_name, subtype) ==
  Op(id, kVarHandleOp, <<>>, shared_name, subtype, 0, <<>>, <<>>)
ConstOp(id, val) == Op(id, kConstOp, <<>>, "", "", val, <<>>, <<>>)
AssignVariableOp(id, resource, value) ==
  Op(id, kAssignVariableOp, <<resource, value>>, "", "", 0, <<>>, <<>>)
ReturnOp(id) == Op(id, kReturnOp, <<>>, "", "", 0, <<>>, <<>>)

Arg(type, index_path) == [type |-> type, index_path |-> index_path]

-----------------------------------------------------------------------------
(* Sequence helpers *)

Range(s) == {s[i] : i \in 1..Len(s)}

\* All sequences over S of length 0..n.
RECURSIVE SeqsUpTo(_, _)
SeqsUpTo(S, n) ==
  IF n = 0 THEN {<<>>}
  ELSE LET shorter == SeqsUpTo(S, n - 1)
       IN  shorter \cup {Append(s, x) : s \in {t \in shorter : Len(t) = n - 1}, x \in S}

-----------------------------------------------------------------------------
(* Block queries (mlir::Block / mlir::Operation / mlir::Value) *)

OpIds(body) == {body[i].id : i \in 1..Len(body)}

PosOf(body, id) == CHOOSE i \in 1..Len(body) : body[i].id = id

OpById(body, id) == body[PosOf(body, id)]

\* Value::getDefiningOp(): the id of the defining operation, NullOp for a
\* block argument.
getDefiningOp(v) == v.def

\* Operation::erase(): unlink the operation from its block.
EraseOp(body, id) == SelectSeq(body, LAMBDA op : op.id # id)

\* Number of operand slots in the block that read a result of operation id.
NumUses(body, id) ==
  Cardinality(UNION {{<<i, j>> : j \in {k \in 1..Len(body[i].operands) :
                                              body[i].operands[k].def = id}} :
                     i \in 1..Len(body)})

-----------------------------------------------------------------------------
(* The modules handed to the pass *)

\* A function that is not an initializer; it holds a
\* tf.AssignVariableOp(tf.VarHandleOp, tf.Const) pattern of its own.
MainFunc ==
  [sym |-> "main", initType |-> "",
   args |-> <<Arg("tensor<1xf32>", <<"x">>)>>,
   body |-> <<VarHandleOp(1, "w1", "tensor<1xf32>"),
              ConstOp(2, 1),
              AssignVariableOp(3, Result(1, 1), Result(2, 1)),
              ReturnOp(4)>>]

\* Operations the initializer starts with: two variable handles, two
\* constants, an alias of the first handle and a value computed from the first
\* constant; with hasRestore, also a tf.RestoreV2 that was already there.
Prelude(hasRestore) ==
  <<VarHandleOp(1, "w1", "tensor<1xf32>"),
    VarHandleOp(2, "w2", "tensor<2xf32>"),
    ConstOp(3, 1),
    ConstOp(4, 2),
    Op(5, kIdentityOp, <<Result(1, 1)>>, "", "", 0, <<>>, <<>>),
    Op(6, kNegOp, <<Result(3, 1)>>, "", "", 0, <<>>, <<>>)>>
  \o (IF hasRestore
      THEN <<Op(7, kConstOp, <<>>, "tensor_names", "tensor<1x!tf_type.string>",
                0, <<"w0">>, <<>>),
             Op(8, kConstOp, <<>>, "shape_and_slices", "tensor<1x!tf_type.string>",
                0, <<"">>, <<>>),
             Op(9, kRestoreV2Op, <<BlockArg(3), Result(7, 1), Result(8, 1)>>,
                "", "", 0, <<>>, <<"tensor<1xf32>">>)>>
      ELSE <<>>)

\* What operand 0 of an AssignVariableOp may be: a VarHandleOp result, a
\* block argument, the result of another operation.
ResourceOperands == {Result(1, 1), Result(2, 1), BlockArg(1), Result(5, 1)}
\* What operand 1 may be: a Const result, a block argument, a computed value.
ValueOperands == {Result(3, 1), Result(4, 1), BlockArg(2), Result(6, 1)}

InitializerFunc(initType, hasRestore, assigns) ==
  LET prelude == Prelude(hasRestore)
      n == Len(prelude)
  IN  [sym |-> "init", initType |-> initType,
       args |-> <<Arg("tensor<!tf_type.resource<tensor<1xf32>>>", <<"handle">>),
                  Arg("tensor<1xf32>", <<"value">>)>>
                \o (IF hasRestore THEN <<Arg(ScalarStringType, <<"file_prefix">>)>>
                    ELSE <<>>),
       body |-> prelude
                \o [k \in 1..Len(assigns) |->
                      AssignVariableOp(n + k, assigns[k][1], assigns[k][2])]
                \o <<ReturnOp(n + Len(assigns) + 1)>>]

InputModules ==
  {<<MainFunc, InitializerFunc(t, r, a)>> :
     t \in {kTfSavedModelInitializerRestoreType, kTfSavedModelInitializerInitType},
     r \in BOOLEAN,
     a \in SeqsUpTo(ResourceOperands \X ValueOperands, MaxAssign)}

-----------------------------------------------------------------------------
(* tf_saved_model::GetInitializerFunction *)

\* Index of the function whose initializer type is `type`, 0 (null) if none.
GetInitializerFunction(m, type) ==
  IF \E j \in 1..Len(m) : m[j].initType = type
  THEN CHOOSE j \in 1..Len(m) :
         /\ m[j].initType = type
         /\ \A k \in 1..(j - 1) : m[k].initType # type
  ELSE 0

-----------------------------------------------------------------------------
(* RemoveAssignVariableOpsAndConstOps *)

\* session_init_func.getOps<TF::AssignVariableOp>(): ids in block order.
AssignVariableOps(body) ==
  LET sel == SelectSeq(body, LAMBDA op : op.kind = kAssignVariableOp)
  IN  [i \in 1..Len(sel) |-> sel[i].id]

\* begin() of the filtered range: the first AssignVariableOp, 0 at end().
FirstAssign(body) ==
  IF AssignVariableOps(body) = <<>> THEN 0 ELSE AssignVariableOps(body)[1]

\* operator++ of the filtered iterator standing on `cur`: the next
\* AssignVariableOp after it in the block, 0 at end().
NextAssign(body, cur) ==
  LET later == SelectSeq(SubSeq(body, PosOf(body, cur) + 1, Len(body)),
                         LAMBDA op : op.kind = kAssignVariableOp)
  IN  IF later = <<>> THEN 0 ELSE later[1].id

\* dyn_cast<OpT>(op) on a non-null op: op if it is of the kind, else null.
DynCast(body, kind, id) == IF OpById(body, id).kind = kind THEN id ELSE NullOp

\* Faulty variant: the AssignVariableOp is left in the block.
EraseAssignVariableOpSkipped(body, id) == body

\* assign_variable_op.erase()
EraseAssignVariableOp(body, id) == EraseOp(body, id)

\* Faulty variant: the constant is erased whether or not it is still used.
UseEmptyUnchecked(body, id) == TRUE

\* const_op->use_empty()
UseEmpty(body, id) == NumUses(body, id) = 0

\* Faulty variant: the emptiness check is missing.
NothingToRestoreUnchecked(handles) == FALSE

\* target_var_handle_ops.empty()
NothingToRestore(handles) == handles = <<>>

-----------------------------------------------------------------------------
(* Create1DStringConst, InsertFilePrefixArgument, CreateRestoreV2Op *)

\* A ConstOp of type tensor<Nx!tf_type.string> holding str_values.
Create1DStringConst(id, str_values, loc) ==
  Op(id, kConstOp, <<>>, loc,
     "tensor<" \o ToString(Len(str_values)) \o "x!tf_type.string>",
     0, str_values, <<>>)

CreateTensorNamesConst(id, tensor_names) ==
  Create1DStringConst(id, tensor_names, "tensor_names")

\* `size` empty strings.
CreateShapeAndSlicesConst(id, size) ==
  Create1DStringConst(id, [i \in 1..size |-> ""], "shape_and_slices")

\* Faulty variant: the argument is inserted at index 0.
InsertFilePrefixArgumentAtFront(args) ==
  <<Arg(ScalarStringType, <<"file_prefix">>)>> \o args

\* func_op.insertArgument(insert_idx, type, attrs, loc) with
\* insert_idx = func_op.getNumArguments() (0-based).
InsertFilePrefixArgument(args) ==
  LET insert_idx == Len(args)
  IN  SubSeq(args, 1, insert_idx)
      \o <<Arg(ScalarStringType, <<"file_prefix">>)>>
      \o SubSeq(args, insert_idx + 1, Len(args))

\* The block argument InsertFilePrefixArgument returns:
\* func_op.getArgument(insert_idx), counted from 1 here.
FilePrefixArgument(args) == BlockArg(Len(args) + 1)

\* Faulty variant: the builder's insertion point is the end of the block.
InsertAtBlockEnd(body, ops) == body \o ops

\* OpBuilder::atBlockTerminator + create: each new operation is linked in
\* immediately before the block's terminator, in creation order.
InsertBeforeTerminator(body, ops) ==
  SubSeq(body, 1, Len(body) - 1) \o ops \o <<body[Len(body)]>>

\* tensor_names / tensor_types gathered from the VarHandleOps (lines 159-165).
TensorNames(body, handles) ==
  [i \in 1..Len(handles) |-> OpById(body, handles[i]).name]
TensorTypes(body, handles) ==
  [i \in 1..Len(handles) |-> OpById(body, handles[i]).subtype]

\* Faulty variant: result idx goes into the handles counted from the back.
NewAssignVariableOpsReversed(handles, restore, firstId) ==
  [i \in 1..Len(restore.types) |->
     AssignVariableOp(firstId + i - 1, Result(handles[Len(handles) + 1 - i], 1),
                      Result(restore.id, i))]

\* The AssignVariableOps created for the results of the RestoreV2Op `restore`,
\* result idx (from 1) going into target_var_handle_ops[idx].
NewAssignVariableOps(handles, restore, firstId) ==
  [i \in 1..Len(restore.types) |->
     AssignVariableOp(firstId + i - 1, Result(handles[i], 1), Result(restore.id, i))]

\* The function after CreateRestoreV2Op(target_var_handle_ops, func); new
\* operations get the ids id0, id0 + 1, ...
CreateRestoreV2Op(handles, func, id0) ==
  LET tensor_names == TensorNames(func.body, handles)
      tensor_types == TensorTypes(func.body, handles)
      filename_arg == FilePrefixArgument(func.args)
      tensor_names_const == CreateTensorNamesConst(id0, tensor_names)
      shape_and_slices_const ==
        CreateShapeAndSlicesConst(id0 + 1, Len(tensor_names))
      restore_op ==
        Op(id0 + 2, kRestoreV2Op,
           <<filename_arg, Result(tensor_names_const.id, 1),
             Result(shape_and_slices_const.id, 1)>>,
           "", "", 0, <<>>, tensor_types)
      created == <<tensor_names_const, shape_and_slices_const, restore_op>>
                 \o NewAssignVariableOps(handles, restore_op, id0 + 3)
  IN  [func EXCEPT !.args = InsertFilePrefixArgument(func.args),
                   !.body = InsertBeforeTerminator(func.body, created)]

\* Number of operations CreateRestoreV2Op creates for n handles: two
\* constants, the RestoreV2Op and n AssignVariableOps.
NumCreated(n) == Len(<<"tensor_names", "shape_and_slices", "restore">>) + n

\* An id no operation of the module carries (a fresh Operation*).
FreshId(m) ==
  1 + Cardinality(UNION {OpIds(m[j].body) : j \in 1..Len(m)})

-----------------------------------------------------------------------------
(* InsertRestoreOpPass::runOnOperation, one step per statement of interest *)

Func == module[session_init_func]
Body == module[session_init_func].body
Cur == OpById(Body, it)

\* Faulty variant: the pass looks up the "init_op" initializer.
RestoreTypeInitOp == kTfSavedModelInitializerInitType

RestoreType == kTfSavedModelInitializerRestoreType

Init ==
  /\ module \in InputModules
  /\ pc = "start"
  /\ session_init_func = 0
  /\ it = 0
  /\ var_handle_ops = <<>>
  /\ const_op = NullOp
  /\ nextId = FreshId(module)
  /\ pre = module
  /\ outcomes = <<>>

\* Lines 192-200: locate the initializer; return if there is none.
Locate ==
  /\ pc = "start"
  /\ LET f == GetInitializerFunction(module, RestoreType)
     IN  IF f = 0
         THEN /\ pc' = "done"
              /\ outcomes' = Append(outcomes, "no_initializer")
              /\ UNCHANGED <<session_init_func, it>>
         ELSE /\ pc' = "scan"
              /\ session_init_func' = f
              /\ it' = FirstAssign(module[f].body)
              /\ UNCHANGED outcomes
  /\ var_handle_ops' = <<>>
  /\ const_op' = NullOp
  /\ UNCHANGED <<module, pre, nextId>>

\* Lines 81-83 and 86-88: the defining operations of the two operands.
ResourceDef == getDefiningOp(Cur.operands[1])
ValueDef == getDefiningOp(Cur.operands[2])

\* The loop iteration reaches a dyn_cast<> whose argument is nullptr: line 83
\* when operand 0 is a block argument, line 88 when operand 0 is a
\* VarHandleOp result and operand 1 is a block argument.
DynCastOnNull ==
  \/ ResourceDef = NullOp
  \/ /\ ResourceDef # NullOp
     /\ DynCast(Body, kVarHandleOp, ResourceDef) # NullOp
     /\ ValueDef = NullOp

\* Faulty variant: the `if (!const_op) continue;` of line 89 is missing.
NotAPatternNoConstCheck ==
  /\ ResourceDef # NullOp
  /\ DynCast(Body, kVarHandleOp, ResourceDef) = NullOp

\* Lines 84 and 89: one of the casts yields null on a non-null operation.
NotAPattern ==
  /\ ResourceDef # NullOp
  /\ \/ DynCast(Body, kVarHandleOp, ResourceDef) = NullOp
     \/ /\ ValueDef # NullOp
        /\ DynCast(Body, kConstOp, ValueDef) = NullOp

\* dyn_cast<> requires a non-null argument (llvm/Support/Casting.h): with
\* assertions the process aborts; without them classof() reads through the
\* null pointer, which faults, or in a build where that read yields a
\* non-matching operation name the cast returns null and the loop continues.
ScanDynCastNull ==
  /\ pc = "scan"
  /\ it # 0
  /\ DynCastOnNull
  /\ \/ /\ pc' = "crashed"
        /\ UNCHANGED it
     \/ /\ it' = NextAssign(Body, it)
        /\ UNCHANGED pc
  /\ UNCHANGED <<module, session_init_func, var_handle_ops, const_op, nextId,
                 pre, outcomes>>

\* Lines 84, 89: `continue`.
ScanContinue ==
  /\ pc = "scan"
  /\ it # 0
  /\ NotAPattern
  /\ it' = NextAssign(Body, it)
  /\ UNCHANGED <<module, pc, session_init_func, var_handle_ops, const_op,
                 nextId, pre, outcomes>>

\* Lines 91-93: record the VarHandleOp, erase the AssignVariableOp.  The
\* early-increment range has already advanced the iterator past it.
ScanMatch ==
  /\ pc = "scan"
  /\ it # 0
  /\ ~DynCastOnNull
  /\ ~NotAPattern
  /\ var_handle_ops' = Append(var_handle_ops, DynCast(Body, kVarHandleOp, ResourceDef))
  /\ const_op' = DynCast(Body, kConstOp, ValueDef)
  /\ it' = NextAssign(Body, it)
  /\ module' = [module EXCEPT ![session_init_func].body =
                                 EraseAssignVariableOp(Body, it)]
  /\ pc' = "use_check"
  /\ UNCHANGED <<session_init_func, nextId, pre, outcomes>>

\* Lines 95-97: erase the ConstOp if nothing uses it any more.
ConstUseCheck ==
  /\ pc = "use_check"
  /\ module' = IF UseEmpty(Body, const_op)
               THEN [module EXCEPT ![session_init_func].body = EraseOp(Body, const_op)]
               ELSE module
  /\ const_op' = NullOp
  /\ pc' = "scan"
  /\ UNCHANGED <<session_init_func, it, var_handle_ops, nextId, pre, outcomes>>

\* Lines 100, 202-208: the loop is over; return if nothing was collected.
ScanEnd ==
  /\ pc = "scan"
  /\ it = 0
  /\ IF NothingToRestore(var_handle_ops)
     THEN /\ pc' = "done"
          /\ outcomes' = Append(outcomes, "no_patterns")
     ELSE /\ pc' = "create"
          /\ UNCHANGED outcomes
  /\ UNCHANGED <<module, session_init_func, it, var_handle_ops, const_op,
                 nextId, pre>>

\* Line 210.
CreateRestore ==
  /\ pc = "create"
  /\ module' = [module EXCEPT ![session_init_func] =
                  CreateRestoreV2Op(var_handle_ops, Func, nextId)]
  /\ nextId' = nextId + NumCreated(Len(var_handle_ops))
  /\ pc' = "done"
  /\ outcomes' = Append(outcomes, "mutated")
  /\ UNCHANGED <<session_init_func, it, var_handle_ops, const_op, pre>>

\* The pass manager runs the pass again on the module as it now is.
Rerun ==
  /\ pc = "done"
  /\ Len(outcomes) < MaxRuns
  /\ pc' = "start"
  /\ pre' = module
  /\ session_init_func' = 0
  /\ it' = 0
  /\ var_handle_ops' = <<>>
  /\ const_op' = NullOp
  /\ UNCHANGED <<module, nextId, outcomes>>

Next ==
  \/ Locate
  \/ ScanDynCastNull
  \/ ScanContinue
  \/ ScanMatch
  \/ ConstUseCheck
  \/ ScanEnd
  \/ CreateRestore
  \/ Rerun

Spec == Init /\ [][Next]_vars

-----------------------------------------------------------------------------
(* Vocabulary of the properties *)

Last(s) == s[Len(s)]

\* The initializer of kind "restore_op" of module m (0 if none), and its parts.
RestoreInit(m) == GetInitializerFunction(m, kTfSavedModelInitializerRestoreType)
HasRestoreInit(m) == \E j \in 1..Len(m) : m[j].initType = kTfSavedModelInitializerRestoreType
BodyOf(m) == m[RestoreInit(m)].body
ArgsOf(m) == m[RestoreInit(m)].args

KindOfDef(body, v) == IF v.def = NullOp THEN "block argument" ELSE OpById(body, v.def).kind

\* op is an AssignVariableOp(VarHandleOp, Const) of the block.
Qualifying(body, op) ==
  /\ op.kind = kAssignVariableOp
  /\ KindOfDef(body, op.operands[1]) = kVarHandleOp
  /\ KindOfDef(body, op.operands[2]) = kConstOp

NonQualifying(body, op) == op.kind = kAssignVariableOp /\ ~Qualifying(body, op)

\* The qualifying triples of a block in block order, their handles H and
\* their constants.
QualifyingOps(body) == SelectSeq(body, LAMBDA op : Qualifying(body, op))
H(body) == [i \in 1..Len(QualifyingOps(body)) |-> QualifyingOps(body)[i].operands[1].def]
QualifyingConsts(body) == {QualifyingOps(body)[i].operands[2].def : i \in 1..Len(QualifyingOps(body))}

OpsOfKind(body, kind) == SelectSeq(body, LAMBDA op : op.kind = kind)

\* Operations of body that were not in body0 / that were.
NewOps(body0, body) == SelectSeq(body, LAMBDA op : op.id \notin OpIds(body0))
OldOps(body0, body) == SelectSeq(body, LAMBDA op : op.id \in OpIds(body0))

\* Every operand is a block argument or the result of an operation placed
\* earlier in the same block.
WellFormed(body) ==
  \A i \in 1..Len(body) : \A k \in 1..Len(body[i].operands) :
     \/ body[i].operands[k].def = NullOp
     \/ \E j \in 1..(i - 1) : body[j].id = body[i].operands[k].def

RunDone == pc = "done"
Mutated == pc = "done" /\ Last(outcomes) = "mutated"
EarlyExit == pc = "done" /\ Last(outcomes) \in {"no_initializer", "no_patterns"}

-----------------------------------------------------------------------------
(* Properties *)

IsPrefix(s, t) == Len(s) <= Len(t) /\ SubSeq(t, 1, Len(s)) = s

HasPattern(m) ==
  \E j \in 1..Len(m) : \E i \in 1..Len(m[j].body) : Qualifying(m[j].body, m[j].body[i])

\* C1: when the module has no initializer function of kind "restore_op", a
\* run of the pass leaves the whole module as it was when the run began: no
\* function gains an argument and no operation is added, erased or rewired.
C1_NoInitializerUnchanged ==
  ~HasRestoreInit(pre) => (module = pre /\ pc \in {"start", "done"})

\* A finished run on a module without "restore_op" initializer whose
\* functions do hold AssignVariableOp(VarHandleOp, Const) patterns.
C1_Witness ==
  /\ RunDone
  /\ ~HasRestoreInit(pre)
  /\ Last(outcomes) = "no_initializer"
  /\ HasPattern(pre)

\* C2: when the "restore_op" initializer holds no qualifying
\* AssignVariableOp(VarHandleOp, Const), the module stays as it was when the
\* run began, at every step of the run: no argument appended, no RestoreV2 or
\* constant created, no operation erased.
C2_NoPatternUnchanged ==
  (HasRestoreInit(pre) /\ QualifyingOps(BodyOf(pre)) = <<>>)
     => /\ module = pre
        /\ pc \notin {"use_check", "create"}
        /\ RunDone => Last(outcomes) = "no_patterns"

\* A finished run on a "restore_op" initializer that has AssignVariableOps,
\* none of them qualifying.
C2_Witness ==
  /\ RunDone
  /\ HasRestoreInit(pre)
  /\ QualifyingOps(BodyOf(pre)) = <<>>
  /\ OpsOfKind(BodyOf(pre), kAssignVariableOp) # <<>>
  /\ Last(outcomes) = "no_patterns"

\* C8: a run that mutates the initializer appends exactly one argument, at
\* the index equal to the previous argument count, of scalar string type and
\* with index path ["file_prefix"]; the arguments that were there keep index,
\* type and attributes; no argument of any function is ever removed; both
\* early exits leave every argument list as it was.
C8_ArgumentAppended ==
  /\ \A j \in 1..Len(pre) : IsPrefix(pre[j].args, module[j].args)
  /\ Mutated =>
       /\ ArgsOf(module) = ArgsOf(pre) \o <<Arg(ScalarStringType, <<"file_prefix">>)>>
       /\ \A j \in 1..Len(pre) : j # RestoreInit(pre) => module[j].args = pre[j].args
  /\ EarlyExit => \A j \in 1..Len(pre) : module[j].args = pre[j].args
  /\ pc # "done" => \A j \in 1..Len(pre) : module[j].args = pre[j].args

\* A mutating run on an initializer that already had arguments.
C8_Witness ==
  /\ Mutated
  /\ Len(ArgsOf(pre)) >= 2
  /\ Len(ArgsOf(module)) = Len(ArgsOf(pre)) + 1
  /\ ArgsOf(module)[Len(ArgsOf(pre)) + 1].index_path = <<"file_prefix">>

\* The block of the "restore_op" initializer when the run began and now, the
\* number N of qualifying triples it held, and what the run created in it.
PreBody == BodyOf(pre)
NowBody == BodyOf(module)
N == Len(QualifyingOps(PreBody))
Created == NewOps(PreBody, NowBody)
CreatedRestores == OpsOfKind(Created, kRestoreV2Op)
CreatedAssigns == OpsOfKind(Created, kAssignVariableOp)

\* r is a RestoreV2 with operands (the last argument, a tensor_names constant,
\* a shape_and_slices constant) and n results.
RestoreShape(r, n) ==
  /\ Len(r.operands) = Len(<<"prefix", "tensor_names", "shape_and_slices">>)
  /\ r.operands[1] = BlockArg(Len(ArgsOf(module)))
  /\ KindOfDef(NowBody, r.operands[2]) = kConstOp
  /\ KindOfDef(NowBody, r.operands[3]) = kConstOp
  /\ r.operands[2] # r.operands[3]
  /\ Len(r.types) = n

\* What C3 says besides the number of RestoreV2 operations.
C3_Rest ==
  /\ Last(outcomes) = "mutated"
  /\ Len(ArgsOf(module)) = Len(ArgsOf(pre)) + 1
  /\ Last(ArgsOf(module)).type = ScalarStringType
  /\ Len(CreatedAssigns) = N
  /\ Len(OpsOfKind(NowBody, kAssignVariableOp))
       = Len(OpsOfKind(PreBody, kAssignVariableOp))
  /\ \A i \in 1..N : QualifyingOps(PreBody)[i].id \notin OpIds(NowBody)
  /\ \A c \in QualifyingConsts(PreBody) :
        c \in OpIds(NowBody) <=> NumUses(NowBody, c) > 0

\* C3 as stated in the claim: after a run on an initializer with N >= 1
\* qualifying triples the initializer holds exactly one RestoreV2.
C3_Original ==
  (RunDone /\ HasRestoreInit(pre) /\ N >= 1)
     => /\ C3_Rest
        /\ Len(OpsOfKind(NowBody, kRestoreV2Op)) = 1
        /\ \A i \in 1..Len(OpsOfKind(NowBody, kRestoreV2Op)) :
              RestoreShape(OpsOfKind(NowBody, kRestoreV2Op)[i], N)

\* C3 (amended): after a run on an initializer with N >= 1 qualifying
\* triples, the initializer has one more argument (scalar string), the run
\* has created exactly one RestoreV2 (one more than there were), with three
\* operands and N results, and exactly N AssignVariableOps; none of the N
\* qualifying AssignVariableOps remains, and each of their constants is gone
\* exactly when nothing uses it any more.
C3_OneRestoreCreated ==
  (RunDone /\ HasRestoreInit(pre) /\ N >= 1)
     => /\ C3_Rest
        /\ Len(CreatedRestores) = 1
        /\ Len(OpsOfKind(NowBody, kRestoreV2Op))
             = Len(OpsOfKind(PreBody, kRestoreV2Op)) + 1
        /\ RestoreShape(CreatedRestores[1], N)

\* A finished run that replaced two triples, one whose constant is still
\* used and so persists, one whose constant is gone.
C3_Witness ==
  /\ Mutated
  /\ N >= 2
  /\ \E c \in QualifyingConsts(PreBody) : c \in OpIds(NowBody)
  /\ \E c \in QualifyingConsts(PreBody) : c \notin OpIds(NowBody)
  /\ Len(CreatedRestores) = 1

\* C4: with H the handles of the qualifying triples in block order, one entry
\* per triple: tensor_names[i] is the shared name of H[i], result type i of
\* the RestoreV2 is the resource subtype of H[i], shape_and_slices[i] is "",
\* the i-th created AssignVariableOp stores result i into H[i]; every result
\* is assigned and both constants have N elements.
C4_ResultHandleCorrespondence ==
  Mutated =>
    LET r == CreatedRestores[1]
        names == OpById(NowBody, r.operands[2].def)
        shapes == OpById(NowBody, r.operands[3].def)
    IN  /\ var_handle_ops = H(PreBody)
        /\ Len(names.strs) = N
        /\ Len(shapes.strs) = N
        /\ Len(r.types) = N
        /\ Len(CreatedAssigns) = N
        /\ \A i \in 1..N :
              /\ names.strs[i] = OpById(PreBody, H(PreBody)[i]).name
              /\ r.types[i] = OpById(PreBody, H(PreBody)[i]).subtype
              /\ shapes.strs[i] = ""
              /\ CreatedAssigns[i].operands
                   = <<Result(H(PreBody)[i], 1), Result(r.id, i)>>

\* A mutating run whose scan met the handle of "w2" before the handle of "w1".
C4_Witness ==
  /\ Mutated
  /\ N >= 2
  /\ OpById(PreBody, H(PreBody)[1]).name = "w2"
  /\ OpById(PreBody, H(PreBody)[2]).name = "w1"
  /\ OpById(NowBody, CreatedRestores[1].operands[2].def).strs[1] = "w2"

\* C9: after a mutating run the terminator is still the last operation; the
\* created operations stand together right before it, in the order
\* tensor_names constant, shape_and_slices constant, RestoreV2, then the
\* AssignVariableOps for results 0..N-1; the operations that survive from the
\* original block are unchanged, keep their order and come before.
C9_InsertedBeforeTerminator ==
  Mutated =>
    LET n == Len(NowBody)
        k == Len(Created)
        old == OldOps(PreBody, NowBody)
    IN  /\ NowBody[n].kind = kReturnOp
        /\ NowBody[n] = PreBody[Len(PreBody)]
        /\ \A i \in 1..(n - 1) : NowBody[i].kind # kReturnOp
        /\ SubSeq(NowBody, n - k, n - 1) = Created
        /\ k = NumCreated(N)
        /\ Created[1].kind = kConstOp /\ Created[1].name = "tensor_names"
        /\ Created[2].kind = kConstOp /\ Created[2].name = "shape_and_slices"
        /\ Created[3].kind = kRestoreV2Op
        /\ \A i \in 1..N :
              /\ Created[3 + i].kind = kAssignVariableOp
              /\ Created[3 + i].operands[2] = Result(Created[3].id, i)
        /\ old = SelectSeq(PreBody, LAMBDA op : op.id \in OpIds(NowBody))
        /\ SubSeq(NowBody, 1, n - k - 1) \o <<NowBody[n]>> = old

\* A mutating run after which a non-qualifying AssignVariableOp of the
\* original block survives in front of the created operations.
C9_Witness ==
  /\ Mutated
  /\ N >= 1
  /\ \E i \in 1..Len(PreBody) :
        /\ NonQualifying(PreBody, PreBody[i])
        /\ PreBody[i].id \in OpIds(NowBody)
  /\ NowBody[Len(NowBody)].kind = kReturnOp
  /\ NowBody[Len(NowBody) - 1].kind = kAssignVariableOp
  /\ NowBody[Len(NowBody) - 1].id \notin OpIds(PreBody)

\* The run before the current (or just finished) one mutated the initializer.
PreviousRunMutated ==
  IF pc = "done"
  THEN Len(outcomes) >= 2 /\ outcomes[Len(outcomes) - 1] = "mutated"
  ELSE Len(outcomes) >= 1 /\ Last(outcomes) = "mutated"

\* C5 as stated in the claim: a second run on the output of a mutating run
\* creates a second RestoreV2; the rerun is not a no-op.
C5_Original ==
  (RunDone /\ PreviousRunMutated)
     => /\ Len(OpsOfKind(NowBody, kRestoreV2Op))
             = Len(OpsOfKind(PreBody, kRestoreV2Op)) + 1
        /\ module # pre

\* C5 (amended): a run on the output of a mutating run finds no qualifying
\* triple (operand 1 of every created AssignVariableOp is a RestoreV2 result,
\* not a Const), takes the "nothing to restore" exit and leaves the module as
\* it was: no further RestoreV2 is created.
C5_RerunIsNoOp ==
  PreviousRunMutated
     => /\ module = pre
        /\ QualifyingOps(PreBody) = <<>>
        /\ pc \notin {"use_check", "create"}
        /\ RunDone => Last(outcomes) = "no_patterns"

\* A finished second run on an initializer the first run gave a RestoreV2
\* and AssignVariableOp(VarHandleOp, RestoreV2 result) operations.
C5_Witness ==
  /\ RunDone
  /\ PreviousRunMutated
  /\ Len(OpsOfKind(PreBody, kRestoreV2Op)) >= 1
  /\ \E i \in 1..Len(PreBody) :
        /\ PreBody[i].kind = kAssignVariableOp
        /\ KindOfDef(PreBody, PreBody[i].operands[1]) = kVarHandleOp
        /\ KindOfDef(PreBody, PreBody[i].operands[2]) = kRestoreV2Op
  /\ Last(outcomes) = "no_patterns"

\* The qualifying triples of the original block that the scan has erased.
ErasedTriples ==
  SelectSeq(QualifyingOps(PreBody), LAMBDA op : op.id \notin OpIds(NowBody))

\* C10: during the scan a Const is erased exactly when its qualifying
\* AssignVariableOp has been erased and nothing uses it any more (a Const
\* with k >= 2 qualifying users survives until the last of them is erased,
\* and a handle is recorded for every erased triple); a Const feeding a
\* non-qualifying operation is never erased; no VarHandleOp is ever erased;
\* no operation left in the block reads the result of an erased operation.
C10_ConstErasedIffUnused ==
  HasRestoreInit(pre) =>
    LET pb == PreBody
        nb == NowBody
        ids == OpIds(nb)
        erased == SelectSeq(QualifyingOps(pb), LAMBDA op : op.id \notin ids)
        erasedConsts == {erased[j].operands[2].def : j \in 1..Len(erased)}
        otherwiseUsed == {pb[j].operands[k].def :
                            <<j, k>> \in {<<j, k>> \in (1..Len(pb)) \X (1..Len(pb)) :
                                             /\ k <= Len(pb[j].operands)
                                             /\ ~Qualifying(pb, pb[j])}}
    IN  /\ WellFormed(nb)
        /\ \A i \in 1..Len(pb) : pb[i].kind = kVarHandleOp => pb[i].id \in ids
        /\ \A i \in 1..Len(pb) :
              (pb[i].kind = kConstOp /\ ~(pc = "use_check" /\ pb[i].id = const_op))
                => (pb[i].id \notin ids
                      <=> (pb[i].id \in erasedConsts /\ NumUses(nb, pb[i].id) = 0))
        /\ pc = "use_check" => const_op \in ids
        /\ \A i \in 1..Len(pb) :
              (pb[i].kind = kConstOp /\ pb[i].id \in otherwiseUsed) => pb[i].id \in ids
        /\ pc \in {"scan", "use_check", "create", "crashed"} =>
              var_handle_ops = [j \in 1..Len(erased) |-> erased[j].operands[1].def]

\* The scan stands between the two qualifying users of one Const: the first
\* is erased and its handle recorded, the Const survives with one use left.
C10_Witness ==
  /\ pc = "scan"
  /\ HasRestoreInit(pre)
  /\ \E c \in QualifyingConsts(PreBody) :
        /\ NumUses(PreBody, c) = 2
        /\ NumUses(NowBody, c) = 1
        /\ c \in OpIds(NowBody)
        /\ Len(ErasedTriples) = 1
        /\ ErasedTriples[1].operands[2].def = c
  /\ Len(var_handle_ops) = 1

-----------------------------------------------------------------------------
(* What the initializer computes: the variables' values after its operations
   have run in block order, given the checkpoint's tensors *)

VariableNames == {"w0", "w1", "w2", "%arg0"}

\* The variable a resource value refers to.
RECURSIVE VarOf(_, _)
VarOf(body, v) ==
  IF v.def = NullOp THEN "%arg0"
  ELSE LET op == OpById(body, v.def)
       IN  IF op.kind = kVarHandleOp THEN op.name ELSE VarOf(body, op.operands[1])

\* The tensor a value holds; a block argument holds 5; RestoreV2 result i is
\* the checkpoint's tensor of name tensor_names[i].
RECURSIVE ValOf(_, _, _)
ValOf(body, v, ckpt) ==
  IF v.def = NullOp THEN 5
  ELSE LET op == OpById(body, v.def)
       IN  CASE op.kind = kConstOp -> op.val
             [] op.kind = kNegOp -> 0 - ValOf(body, op.operands[1], ckpt)
             [] op.kind = kRestoreV2Op ->
                  ckpt[OpById(body, op.operands[2].def).strs[v.idx]]
             [] OTHER -> ValOf(body, op.operands[1], ckpt)

RECURSIVE ExecFrom(_, _, _, _)
ExecFrom(body, i, store, ckpt) ==
  IF i > Len(body) THEN store
  ELSE IF body[i].kind = kAssignVariableOp
       THEN ExecFrom(body, i + 1,
                     [store EXCEPT ![VarOf(body, body[i].operands[1])] =
                                      ValOf(body, body[i].operands[2], ckpt)],
                     ckpt)
       ELSE ExecFrom(body, i + 1, store, ckpt)

Exec(body, ckpt) == ExecFrom(body, 1, [n \in VariableNames |-> 0], ckpt)

\* Each handle occurs in at most one qualifying triple of the block.
HandlesDistinct(body) ==
  \A i, j \in 1..Len(H(body)) : H(body)[i] = H(body)[j] => i = j

\* The checkpoint that holds, under the shared name of every handle of a
\* qualifying triple, the constant the triple assigned (0 under other names).
CheckpointOf(body) ==
  [n \in VariableNames |->
     IF \E i \in 1..Len(QualifyingOps(body)) :
           OpById(body, H(body)[i]).name = n
     THEN LET i == CHOOSE i \in 1..Len(QualifyingOps(body)) :
                     OpById(body, H(body)[i]).name = n
          IN  OpById(body, QualifyingOps(body)[i].operands[2].def).val
     ELSE 0]

\* C6: an AssignVariableOp whose operand 0 is not a VarHandleOp result or
\* whose operand 1 is not a Const result (block arguments included) is
\* skipped without error or abort: the run never aborts, and once the scan is
\* over the operation and the producers of its operands are in the block
\* unchanged and exactly the handles of the qualifying triples were collected.
C6_SkippedWithoutAbort ==
  /\ pc # "crashed"
  /\ (HasRestoreInit(pre) /\ pc \in {"create", "done"}) =>
        /\ \A i \in 1..Len(PreBody) :
              NonQualifying(PreBody, PreBody[i]) =>
                 /\ PreBody[i] \in Range(NowBody)
                 /\ \A k \in 1..Len(PreBody[i].operands) :
                       PreBody[i].operands[k].def # NullOp =>
                          OpById(PreBody, PreBody[i].operands[k].def) \in Range(NowBody)
        /\ pc = "create" => var_handle_ops = H(PreBody)

\* Every operand of every AssignVariableOp has a defining operation, so that
\* the scan never casts a null pointer.
NoBlockArgumentAssigned(body) ==
  \A i \in 1..Len(body) :
     body[i].kind = kAssignVariableOp =>
        \A k \in 1..Len(body[i].operands) : body[i].operands[k].def # NullOp

\* C7: for the checkpoint that holds each restored tensor name's original
\* constant, and handles that occur in at most one qualifying triple, the
\* transformed initializer leaves every variable with the value the original
\* initializer leaves it with, also a variable that a non-qualifying
\* AssignVariableOp writes before or after the replaced one.  (Stated for
\* the initializers whose AssignVariableOps read no block argument, on which
\* the scan is well defined.)
C7_SemanticallyEquivalent ==
  (Mutated /\ HandlesDistinct(PreBody) /\ NoBlockArgumentAssigned(PreBody))
     => Exec(NowBody, CheckpointOf(PreBody)) = Exec(PreBody, CheckpointOf(PreBody))

====
